---- MODULE Spec2Model ----
(***************************************************************************)
(* Model of the philosopher-quote endpoint.  Three variants of the handler *)
(* live in the repository:                                                 *)
(*   "resvg"   src/api/philosopher-quote.js:5-111   SVG rendered to PNG    *)
(*   "svg"     src/api/philosopher-quote.js:122-309 SVG sent as markup     *)
(*   "canvas"  src/unnamed/part_000                 canvas drawn to PNG    *)
(* A JavaScript string is a sequence of one-character strings.             *)
(***************************************************************************)
EXTENDS Integers, Sequences, FiniteSets, TLC

VARIABLES variant, pc, calls, quotesRes, randomIndex, q, philRes, authorName,
          text, maxW, lines, res, err

vars == <<variant, pc, calls, quotesRes, randomIndex, q, philRes, authorName,
          text, maxW, lines, res, err>>

Variants == {"resvg", "svg", "canvas"}

\* ------------------------------------------------------------------ bounds
\* longest input string of the wrapper specification
MaxTextLen == 6
\* largest width constraint of the wrapper specification
MaxConstraint == 45
\* most words of a quote in the handler specification
MaxWords == 8
\* longest quotes collection in the handler specification
MaxQuotes == 2

\* ------------------------------------------------------------ string tools
RECURSIVE Concat(_)
\* the concatenation of a sequence of strings, by halves
Concat(ss) ==
    IF ss = <<>> THEN <<>>
    ELSE IF Len(ss) = 1 THEN ss[1]
    ELSE Concat(SubSeq(ss, 1, Len(ss) \div 2))
         \o Concat(SubSeq(ss, Len(ss) \div 2 + 1, Len(ss)))

\* the positions of s that hold character c, in order
Positions(s, c) == SelectSeq([i \in 1..Len(s) |-> i], LAMBDA i : s[i] = c)

\* text.split(' '): the pieces between single spaces, empty pieces kept
Split(s) ==
    LET cuts == <<0>> \o Positions(s, " ") \o <<Len(s) + 1>>
    IN  [j \in 1..(Len(cuts) - 1) |-> SubSeq(s, cuts[j] + 1, cuts[j + 1] - 1)]

RECURSIVE TrimLeft(_)
TrimLeft(s) == IF s # <<>> /\ Head(s) = " " THEN TrimLeft(Tail(s)) ELSE s

RECURSIVE TrimRight(_)
TrimRight(s) ==
    IF s # <<>> /\ s[Len(s)] = " " THEN TrimRight(SubSeq(s, 1, Len(s) - 1)) ELSE s

\* String.prototype.trim
Trim(s) == TrimRight(TrimLeft(s))

\* ctx.measureText(s).width: the sum of the glyph advances; a glyph is taken
\* as half the font size wide and a space as a quarter of it
measureText(fontPx, s) ==
    LET spaces == Len(Positions(s, " "))
    IN  spaces * (fontPx \div 4) + (Len(s) - spaces) * (fontPx \div 2)

\* ctx.font of each variant that measures text
FontPx(v) == IF v = "resvg" THEN 28 ELSE 20

\* the accumulator of a wrapper: the finished lines and the current line
WrapState(ls, cur) == [lines |-> ls, cur |-> cur]

\* ------------------------------------------- wrapText, character count (svg)
wrapTextFlushDropsLast(st) == st.lines

\* if (currentLine) lines.push(currentLine)
wrapTextFlush(st) == IF st.cur # <<>> THEN Append(st.lines, st.cur) ELSE st.lines

\* the body of the for loop
wrapTextStep(st, word, maxLen) ==
    IF Len(st.cur \o word) <= maxLen
    THEN WrapState(st.lines,
                   st.cur \o (IF st.cur # <<>> THEN <<" ">> ELSE <<>>) \o word)
    ELSE WrapState(IF st.cur # <<>> THEN Append(st.lines, st.cur) ELSE st.lines,
                   word)

RECURSIVE wrapTextLoop(_, _, _)
wrapTextLoop(st, words, maxLen) ==
    IF words = <<>> THEN st
    ELSE wrapTextLoop(wrapTextStep(st, Head(words), maxLen), Tail(words), maxLen)

wrapText(s, maxLen) ==
    wrapTextFlush(wrapTextLoop(WrapState(<<>>, <<>>), Split(s), maxLen))

\* ------------------------------------------- wrapText, pixel width (resvg)
wrapTextResvgStep(st, word, maxWidth) ==
    LET testLine == IF st.cur # <<>> THEN st.cur \o <<" ">> \o word ELSE word
    IN  IF measureText(FontPx("resvg"), testLine) > maxWidth /\ st.cur # <<>>
        THEN WrapState(Append(st.lines, st.cur), word)
        ELSE WrapState(st.lines, testLine)

RECURSIVE wrapTextResvgLoop(_, _, _)
wrapTextResvgLoop(st, words, maxWidth) ==
    IF words = <<>> THEN st
    ELSE wrapTextResvgLoop(wrapTextResvgStep(st, Head(words), maxWidth),
                           Tail(words), maxWidth)

wrapTextResvg(s, maxWidth) ==
    LET st == wrapTextResvgLoop(WrapState(<<>>, <<>>), Split(s), maxWidth)
    IN  IF st.cur # <<>> THEN Append(st.lines, st.cur) ELSE st.lines

\* ------------------------------------------- wrapText, pixel width (canvas)
wrapTextCanvasStep(st, word, maxWidth) ==
    LET testLine == st.cur \o word \o <<" ">>
    IN  IF measureText(FontPx("canvas"), testLine) > maxWidth /\ st.cur # <<>>
        THEN WrapState(Append(st.lines, Trim(st.cur)), word \o <<" ">>)
        ELSE WrapState(st.lines, testLine)

RECURSIVE wrapTextCanvasLoop(_, _, _)
wrapTextCanvasLoop(st, words, maxWidth) ==
    IF words = <<>> THEN st
    ELSE wrapTextCanvasLoop(wrapTextCanvasStep(st, Head(words), maxWidth),
                            Tail(words), maxWidth)

wrapTextCanvas(s, maxWidth) ==
    LET st == wrapTextCanvasLoop(WrapState(<<>>, <<>>), Split(s), maxWidth)
    IN  IF st.cur # <<>> THEN Append(st.lines, Trim(st.cur)) ELSE st.lines

\* the wrapper of a variant
Wrap(v, s, m) ==
    CASE v = "svg" -> wrapText(s, m)
      [] v = "resvg" -> wrapTextResvg(s, m)
      [] OTHER -> wrapTextCanvas(s, m)

\* what a variant's wrapper compares with its constraint
Measured(v, s) == IF v = "svg" THEN Len(s) ELSE measureText(FontPx(v), s)

\* the whitespace-delimited tokens of a string
Tokens(s) == SelectSeq(Split(s), LAMBDA w : w # <<>>)

RECURSIVE TokensOfLines(_)
TokensOfLines(ls) ==
    IF ls = <<>> THEN <<>> ELSE Tokens(Head(ls)) \o TokensOfLines(Tail(ls))

\* ------------------------------------------------------------- escapeXML
AmpEntity == <<"&", "a", "m", "p", ";">>
LtEntity == <<"&", "l", "t", ";">>
GtEntity == <<"&", "g", "t", ";">>
QuotEntity == <<"&", "q", "u", "o", "t", ";">>
AposEntity == <<"&", "a", "p", "o", "s", ";">>
NumAposEntity == <<"&", "#", "0", "3", "9", ";">>

escapeCharKeepsApostrophe(m) ==
    CASE m = "&" -> AmpEntity
      [] m = "<" -> LtEntity
      [] m = ">" -> GtEntity
      [] m = "\"" -> QuotEntity
      [] OTHER -> <<m>>

\* the replacer callback of escapeXML (svg): the switch over the matched character
escapeChar(m) ==
    CASE m = "&" -> AmpEntity
      [] m = "<" -> LtEntity
      [] m = ">" -> GtEntity
      [] m = "\"" -> QuotEntity
      [] m = "'" -> AposEntity
      [] OTHER -> <<m>>

\* str.replace(/[&<>"']/g, ...) of the svg variant
escapeXML(str) == Concat([i \in 1..Len(str) |-> escapeChar(str[i])])

\* str.replace(/c/g, rep) for a one-character pattern
ReplaceAll(str, c, rep) ==
    Concat([i \in 1..Len(str) |-> IF str[i] = c THEN rep ELSE <<str[i]>>])

\* the chain of five replace calls of the resvg variant, & first
escapeXMLResvg(str) ==
    ReplaceAll(ReplaceAll(ReplaceAll(ReplaceAll(ReplaceAll(str,
        "&", AmpEntity), "<", LtEntity), ">", GtEntity), "\"", QuotEntity),
        "'", NumAposEntity)

\* the escaping a variant applies to the text it embeds
Escape(v, str) == IF v = "resvg" THEN escapeXMLResvg(str) ELSE escapeXML(str)

\* ------------------------------------------------ reading escaped markup
Entities == {AmpEntity, LtEntity, GtEntity, QuotEntity, AposEntity, NumAposEntity}

EntityChar(e) ==
    CASE e = AmpEntity -> "&"
      [] e = LtEntity -> "<"
      [] e = GtEntity -> ">"
      [] e = QuotEntity -> "\""
      [] OTHER -> "'"

\* entity e starts at position i of s
HasAt(s, i, e) == i + Len(e) - 1 <= Len(s) /\ SubSeq(s, i, i + Len(e) - 1) = e

\* position i of s lies inside an entity that starts before it
InsideEntity(s, i) ==
    \E e \in Entities : \E j \in 1..(i - 1) : HasAt(s, j, e) /\ i < j + Len(e)

\* what an XML reader makes of the character data s: each entity decoded
\* once (an entity holds no & after its first character, so none overlap)
Decode(s) ==
    LET kept == SelectSeq([i \in 1..Len(s) |-> i], LAMBDA i : ~InsideEntity(s, i))
    IN  [k \in 1..Len(kept) |->
            IF \E e \in Entities : HasAt(s, kept[k], e)
            THEN EntityChar(CHOOSE e \in Entities : HasAt(s, kept[k], e))
            ELSE s[kept[k]]]

\* none of the five special characters stands raw in s
NoRawSpecial(s) ==
    \A i \in 1..Len(s) :
        /\ s[i] \notin {"<", ">", "\"", "'"}
        /\ s[i] = "&" => \E e \in Entities : HasAt(s, i, e)

\* ------------------------------------------------------- text constants
Dash == <<"--", " ">>
NoQuote == <<"N", "o", " ", "q", "u", "o", "t", "e">>
NoQuoteAvailable == <<"N", "o", " ", "q", "u", "o", "t", "e", " ", "a", "v", "a", "i", "l", "a", "b", "l", "e", ".">>
UnknownPhilosopher == <<"U", "n", "k", "n", "o", "w", "n", " ", "P", "h", "i", "l", "o", "s", "o", "p", "h", "e", "r">>
UnknownWork == <<"U", "n", "k", "n", "o", "w", "n", " ", "W", "o", "r", "k">>
UnknownYear == <<"U", "n", "k", "n", "o", "w", "n", " ", "Y", "e", "a", "r">>

\* ------------------------------------------------------ JavaScript values
\* a field of a JSON object: absent, a non-zero number, or a string
Undef == [t |-> "undef", s |-> <<>>]
Num == [t |-> "num", s |-> <<>>]
Str(s) == [t |-> "str", s |-> s]

Truthy(x) == x.t = "num" \/ (x.t = "str" /\ x.s # <<>>)

\* x || d
OrElse(x, d) == IF Truthy(x) THEN x ELSE Str(d)

\* the default of a destructuring pattern: taken for undefined only
OrDefault(x, d) == IF x.t = "undef" THEN Str(d) ELSE x

\* an optional piece of the image: absent, or the one text drawn
None == <<>>
Some(s) == <<s>>

\* ------------------------------------------------------------ the inputs
Word == <<"c", "o", "g", "i", "t", "o", "&", "s", "u", "m">>

RECURSIVE Rep(_)
\* n words separated by single spaces
Rep(n) == IF n = 0 THEN <<>> ELSE IF n = 1 THEN Word ELSE Word \o <<" ">> \o Rep(n - 1)

QuoteFields ==
    {Undef, Num, Str(<<>>), Str(<<" ">>), Str(<<"<", "'", ">", " ", " ", "\"">>)}
    \cup {Str(Rep(n)) : n \in 1..MaxWords}

WorkFields == {Undef, Str(<<"Q", "&", "A">>)}
YearFields == {Undef, Str(<<"<", "1", "7">>)}
IdFields == {Undef, Str(<<"7">>)}

\* an element of the quotes collection: a quote object, null, or (an element
\* of a string) a one-character string, every property of which is undefined
NullItem == [t |-> "null", quote |-> Undef, work |-> Undef, year |-> Undef, id |-> Undef]
PrimItem == [t |-> "prim", quote |-> Undef, work |-> Undef, year |-> Undef, id |-> Undef]
QuoteItems ==
    [t : {"obj"}, quote : QuoteFields, work : WorkFields, year : YearFields,
     id : IdFields]

\* what the quotes endpoint answers: no answer, a body that is not JSON, or
\* a JSON value (null, a number, an object, a string or an array of a length)
Pending == [t |-> "pending", k |-> "none", len |-> 0]
NetworkError == [t |-> "neterr", k |-> "none", len |-> 0]
ParseError == [t |-> "badjson", k |-> "none", len |-> 0]
JsonValues ==
    [t : {"json"}, k : {"null", "num", "obj"}, len : {0}]
    \cup [t : {"json"}, k : {"str", "arr"}, len : 0..MaxQuotes]

ItemsOf(r) == IF r.k = "str" THEN {PrimItem} ELSE QuoteItems \cup {NullItem}

\* what the philosopher endpoint answers
NoPhilosopher == [t |-> "none", ok |-> FALSE, k |-> "none", name |-> Undef]
PhilResponses ==
    {[t |-> "neterr", ok |-> FALSE, k |-> "none", name |-> Undef]}
    \cup [t : {"badjson"}, ok : BOOLEAN, k : {"none"}, name : {Undef}]
    \cup [t : {"json"}, ok : BOOLEAN, k : {"null"}, name : {Undef}]
    \cup [t : {"json"}, ok : BOOLEAN, k : {"obj"},
          name : {Undef, Str(<<>>), Str(<<"O", "'", "B">>)}]

\* ------------------------------------------------------------ the handler
NoResponse ==
    [sends |-> 0, status |-> 200, ctype |-> "", kind |-> "none", markup |-> FALSE,
     width |-> 0, height |-> 0, quoteLines |-> <<>>,
     author |-> None, work |-> None, year |-> None]

\* the catch block: res.status(500).send(...)
CatchResponse(v) ==
    [NoResponse EXCEPT !.sends = 1, !.status = 500,
                       !.kind = IF v = "svg" THEN "errsvg" ELSE "text"]

TryCoversAllButSelection(site) == site # "select"

\* the try block encloses every statement of the handler
TryCovers(site) == TRUE

\* the guard that throws 'No quotes'
QuotesInvalid(v, r) ==
    IF v = "svg"
    THEN \/ r.k = "null" \/ (r.k = "str" /\ r.len = 0)
         \/ r.k \notin {"str", "arr"}
         \/ r.len = 0
    ELSE r.k # "arr" \/ r.len = 0

NeedsPhilosopherAlways(v, item) == v # "canvas"

\* if (philosopherId)
NeedsPhilosopher(v, item) == v # "canvas" /\ Truthy(item.id)

\* the author name before the philosopher is fetched
DefaultAuthor(v) == IF v = "svg" THEN UnknownPhilosopher ELSE <<>>

philosopherNameBlank(v, r) == <<>>

\* the author name after the philosopher fetch returned r
philosopherName(v, r) ==
    IF v = "svg"
    THEN IF r.t = "json" /\ r.ok /\ r.k = "obj" /\ Truthy(r.name)
         THEN r.name.s ELSE UnknownPhilosopher
    ELSE IF r.t = "json" /\ r.k = "obj" /\ Truthy(r.name) THEN r.name.s ELSE <<>>

quoteOf(v, item) ==
    CASE v = "resvg" -> OrElse(item.quote, NoQuote)
      [] v = "svg" -> OrElse(item.quote, NoQuoteAvailable)
      [] OTHER -> OrDefault(item.quote, NoQuote)

workOf(v, item) ==
    IF v = "canvas" THEN OrDefault(item.work, UnknownWork).s
    ELSE OrElse(item.work, <<>>).s

yearOf(v, item) ==
    IF v = "canvas" THEN OrDefault(item.year, UnknownYear).s
    ELSE OrElse(item.year, <<>>).s

\* str.replace / text.split of a value that is no string throws a TypeError
ComposeThrows(v, item) == quoteOf(v, item).t # "str"

\* the string handed to wrapText and the constraint handed with it
WrapInput(v, item) ==
    IF v = "svg" THEN escapeXML(quoteOf(v, item).s) ELSE quoteOf(v, item).s

maxTextWidth(v) ==
    CASE v = "svg" -> 38
      [] v = "resvg" -> 740
      [] OTHER -> 800 - 20 * 2

lineHeight(v) == IF v = "resvg" THEN 40 ELSE 28

ImageHeightShrinks(v, lineCount) == 240 - lineHeight(v) * lineCount

\* totalHeight / svgHeight
ImageHeight(v, lineCount) ==
    CASE v = "resvg" -> 60 * 2 + lineCount * lineHeight(v) + 120
      [] v = "svg" -> 40 + lineHeight(v) * lineCount + 60
      [] OTHER -> lineCount * lineHeight(v) + 80

\* the width attribute of the svg element, or the width of the canvas (the
\* resvg variant then rasterises its svg at twice the size)
ImageWidth(v, lineCount) == IF v = "svg" THEN 700 ELSE 800

\* the image of a variant for the wrapped lines ls
Success(v, item, name, ls) ==
    LET work == workOf(v, item)
        year == yearOf(v, item)
        size == [NoResponse EXCEPT !.sends = 1,
                                   !.width = ImageWidth(v, Len(ls)),
                                   !.height = ImageHeight(v, Len(ls))]
    IN  CASE v = "resvg" ->
               [size EXCEPT !.ctype = "image/png", !.kind = "png", !.markup = TRUE,
                   !.quoteLines = [i \in 1..Len(ls) |-> escapeXMLResvg(ls[i])],
                   !.author = IF name # <<>>
                              THEN Some(Dash \o escapeXMLResvg(name)) ELSE None,
                   !.work = IF work # <<>> THEN Some(escapeXMLResvg(work)) ELSE None,
                   !.year = IF year # <<>> THEN Some(escapeXMLResvg(year)) ELSE None]
          [] v = "svg" ->
               [size EXCEPT !.ctype = "image/svg+xml", !.kind = "svg", !.markup = TRUE,
                   !.status = 200,
                   !.quoteLines = ls,
                   !.author = Some(escapeXML(Dash \o escapeXML(name))),
                   !.work = IF escapeXML(work) # <<>>
                            THEN Some(escapeXML(work)) ELSE None,
                   !.year = IF escapeXML(year) # <<>>
                            THEN Some(escapeXML(year)) ELSE None]
          [] OTHER ->
               [size EXCEPT !.ctype = "image/png", !.kind = "png",
                   !.quoteLines = ls,
                   !.work = Some(Dash \o work),
                   !.year = Some(year)]

\* an error thrown at a site of the handler
Throw(site, e) ==
    /\ err' = e
    /\ IF TryCovers(site)
       THEN pc' = "done" /\ res' = CatchResponse(variant)
       ELSE pc' = "crashed" /\ res' = res
    /\ UNCHANGED <<text, maxW, lines>>

\* from the extraction of the quote's fields to the response
Respond(item, name) ==
    IF ComposeThrows(variant, item)
    THEN Throw("compose", "type")
    ELSE LET ls == Wrap(variant, WrapInput(variant, item), maxTextWidth(variant))
         IN  /\ text' = WrapInput(variant, item)
             /\ maxW' = maxTextWidth(variant)
             /\ lines' = ls
             /\ res' = Success(variant, item, name, ls)
             /\ pc' = "done"
             /\ err' = "none"

Init ==
    /\ variant \in Variants
    /\ pc = "start"
    /\ calls = <<>>
    /\ quotesRes = Pending
    /\ randomIndex = 0
    /\ q = NullItem
    /\ philRes = NoPhilosopher
    /\ authorName = <<>>
    /\ text = <<>>
    /\ maxW = 0
    /\ lines = <<>>
    /\ res = NoResponse
    /\ err = "none"

\* fetch('https://philosophersapi.com/api/quotes') is issued
FetchQuotes ==
    /\ pc = "start"
    /\ calls' = Append(calls, "quotes")
    /\ pc' = "awaitQuotes"
    /\ UNCHANGED <<variant, quotesRes, randomIndex, q, philRes, authorName,
                   text, maxW, lines, res, err>>

\* the fetch rejects
QuotesNetworkError ==
    /\ pc = "awaitQuotes"
    /\ quotesRes' = NetworkError
    /\ Throw("fetch", "network")
    /\ UNCHANGED <<variant, calls, randomIndex, q, philRes, authorName>>

\* response.json() rejects
QuotesParseError ==
    /\ pc = "awaitQuotes"
    /\ quotesRes' = ParseError
    /\ Throw("json", "parse")
    /\ UNCHANGED <<variant, calls, randomIndex, q, philRes, authorName>>

\* the body fails the guard
QuotesRejected ==
    /\ pc = "awaitQuotes"
    /\ \E r \in JsonValues :
        /\ QuotesInvalid(variant, r)
        /\ quotesRes' = r
    /\ Throw("validate", "noquotes")
    /\ UNCHANGED <<variant, calls, randomIndex, q, philRes, authorName>>

\* the selected element is null: reading a property of it throws
SelectThrows ==
    /\ pc = "awaitQuotes"
    /\ \E r \in JsonValues : \E i \in 0..(r.len - 1) :
        /\ ~QuotesInvalid(variant, r)
        /\ NullItem \in ItemsOf(r)
        /\ quotesRes' = r
        /\ randomIndex' = i
        /\ q' = NullItem
    /\ Throw("select", "type")
    /\ UNCHANGED <<variant, calls, philRes, authorName>>

\* a quote with a philosopher id is selected and the philosopher is fetched
SelectAndFetchPhilosopher ==
    /\ pc = "awaitQuotes"
    /\ \E r \in JsonValues : \E i \in 0..(r.len - 1) : \E item \in ItemsOf(r) :
        /\ ~QuotesInvalid(variant, r)
        /\ item.t # "null"
        /\ NeedsPhilosopher(variant, item)
        /\ quotesRes' = r
        /\ randomIndex' = i
        /\ q' = item
    /\ authorName' = DefaultAuthor(variant)
    /\ calls' = Append(calls, "philosopher")
    /\ pc' = "awaitPhilosopher"
    /\ UNCHANGED <<variant, philRes, text, maxW, lines, res, err>>

\* a quote is selected and the image is made without a philosopher fetch
SelectAndRespond ==
    /\ pc = "awaitQuotes"
    /\ \E r \in JsonValues : \E i \in 0..(r.len - 1) : \E item \in ItemsOf(r) :
        /\ ~QuotesInvalid(variant, r)
        /\ item.t # "null"
        /\ ~NeedsPhilosopher(variant, item)
        /\ quotesRes' = r
        /\ randomIndex' = i
        /\ q' = item
        /\ authorName' = DefaultAuthor(variant)
        /\ Respond(item, DefaultAuthor(variant))
    /\ UNCHANGED <<variant, calls, philRes>>

\* the philosopher fetch settles, and the image is made
PhilosopherReturns ==
    /\ pc = "awaitPhilosopher"
    /\ \E r \in PhilResponses :
        /\ philRes' = r
        /\ authorName' = philosopherName(variant, r)
        /\ Respond(q, philosopherName(variant, r))
    /\ UNCHANGED <<variant, calls, quotesRes, randomIndex, q>>

Next ==
    \/ FetchQuotes
    \/ QuotesNetworkError
    \/ QuotesParseError
    \/ QuotesRejected
    \/ SelectThrows
    \/ SelectAndFetchPhilosopher
    \/ SelectAndRespond
    \/ PhilosopherReturns

Spec == Init /\ [][Next]_vars

\* ------------------------------------------- the wrappers on their own
WrapAlphabet == {"a", "b", " "}
WrapTexts == UNION {[1..n -> WrapAlphabet] : n \in 0..MaxTextLen}

InitWrap ==
    /\ variant \in Variants
    /\ pc = "wrap"
    /\ text \in WrapTexts
    /\ maxW \in 0..MaxConstraint
    /\ lines = <<>>
    /\ calls = <<>>
    /\ quotesRes = Pending
    /\ randomIndex = 0
    /\ q = NullItem
    /\ philRes = NoPhilosopher
    /\ authorName = <<>>
    /\ res = NoResponse
    /\ err = "none"

\* wrapText(text, maxW)
WrapText ==
    /\ pc = "wrap"
    /\ lines' = Wrap(variant, text, maxW)
    /\ pc' = "wrapped"
    /\ UNCHANGED <<variant, calls, quotesRes, randomIndex, q, philRes, authorName,
                   text, maxW, res, err>>

NextWrap == WrapText

SpecWrap == InitWrap /\ [][NextWrap]_vars

\* ------------------------------------------------------------------ claims
\* the texts a success response embeds, in one sequence
Embedded(r) == r.quoteLines \o r.author \o r.work \o r.year

Fallback(r) == r.status = 500 /\ r.kind \in {"text", "errsvg"} /\ Embedded(r) = <<>>

NoStraySpaces(s) ==
    /\ s # <<>> => s[1] # " " /\ s[Len(s)] # " "
    /\ \A i \in 1..(Len(s) - 1) : ~(s[i] = " " /\ s[i + 1] = " ")

\* C1: every line wrapText returns measures at most the constraint, unless
\* the line is a single token that by itself exceeds the constraint.
C1_LinesWithinConstraint ==
    pc = "wrapped" =>
        \A i \in 1..Len(lines) :
            \/ Measured(variant, lines[i]) <= maxW
            \/ /\ Len(Tokens(lines[i])) = 1
               /\ Measured(variant, Tokens(lines[i])[1]) > maxW

\* C2: for a non-empty input, the tokens of the returned lines, taken in
\* line order, are exactly the tokens of the input.
C2_TokensPreserved ==
    (pc = "wrapped" /\ text # <<>>) => TokensOfLines(lines) = Tokens(text)

C2_Witness ==
    /\ pc = "wrapped"
    /\ Len(lines) >= 2
    /\ Len(Tokens(text)) >= 3
    /\ \E i \in 1..Len(lines) : Len(Tokens(lines[i])) = 2

\* C3: a quotes body that is an empty array or no array ends in HTTP 500
\* with the fallback body, no philosopher fetch and no escaped exception.
C3_BadCollectionIsFatal ==
    (quotesRes.t = "json" /\ (quotesRes.k # "arr" \/ quotesRes.len = 0)) =>
        /\ pc = "done"
        /\ res.sends = 1
        /\ Fallback(res)
        /\ calls = <<"quotes">>

\* the philosopher fetch failed as the svg variant sees it
DetailFailed ==
    \/ philRes.t \in {"neterr", "badjson"}
    \/ philRes.t = "json" /\ (~philRes.ok \/ philRes.k # "obj" \/ ~Truthy(philRes.name))

\* the philosopher fetch failed as the resvg variant, which does not read
\* the status, sees it
DetailFailedResvg ==
    \/ philRes.t \in {"neterr", "badjson"}
    \/ philRes.t = "json" /\ (philRes.k # "obj" \/ ~Truthy(philRes.name))

C5_NoRawSpecialInMarkup ==
    (pc = "done" /\ res.markup) =>
        \A i \in 1..Len(Embedded(res)) : NoRawSpecial(Embedded(res)[i])

C5_Witness ==
    /\ pc = "done" /\ res.markup /\ variant = "svg"
    /\ \E i \in 1..Len(q.quote.s) : q.quote.s[i] = "'"
    /\ \E i \in 1..Len(authorName) : authorName[i] = "'"
    /\ res.work # None /\ res.year # None

\* an error that the specification calls fatal occurred in the invocation
FatalFailure ==
    \/ err # "none"
    \/ quotesRes.t \in {"neterr", "badjson"}
    \/ quotesRes.t = "json" /\ quotesRes.k = "arr" /\ quotesRes.len = 0
    \/ quotesRes.t = "json" /\ quotesRes.len > 0 /\ pc = "done" /\ q.t = "null"
    \/ pc = "done" /\ q.t = "obj" /\ q.quote.t = "num"

C8_FetchesSequentialOnce ==
    /\ calls \in {<<>>, <<"quotes">>, <<"quotes", "philosopher">>}
    /\ quotesRes.t # "pending" => calls # <<>>
    /\ philRes.t # "none" => calls = <<"quotes", "philosopher">>
    /\ calls = <<"quotes", "philosopher">> =>
          /\ quotesRes.t = "json"
          /\ q.t # "null" /\ Truthy(q.id)
          /\ variant # "canvas"

C8_Witness ==
    /\ pc = "done"
    /\ calls = <<"quotes", "philosopher">>
    /\ philRes.t = "neterr"

\* C9: the image height is a fixed padding plus the line height times the
\* number of wrapped lines, so never less than for fewer lines, and the
\* image width is the same for every number of lines.
C9_HeightMonotoneWidthFixed ==
    (pc = "done" /\ res.kind \in {"png", "svg"}) =>
        /\ res.height = ImageHeight(variant, 0) + lineHeight(variant) * Len(lines)
        /\ \A m \in 0..Len(lines) :
              /\ ImageHeight(variant, m) <= res.height
              /\ ImageWidth(variant, m) = res.width

C9_Witness ==
    /\ pc = "done" /\ res.kind = "png" /\ variant = "canvas"
    /\ Len(lines) >= 2
    /\ res.height > ImageHeight(variant, 1)

\* C7: runs of spaces act as one separator: no returned line holds two
\* adjacent spaces or starts or ends with a space.
C7_SpacesCollapse ==
    pc = "wrapped" => \A i \in 1..Len(lines) : NoStraySpaces(lines[i])

\* C10: every embedded text is escaped exactly once: decoding the entities
\* of the embedded text once gives back the quote, author, work and year.
C10_EscapedExactlyOnce ==
    (pc = "done" /\ res.markup) =>
        /\ TokensOfLines([i \in 1..Len(res.quoteLines) |-> Decode(res.quoteLines[i])])
              = Tokens(quoteOf(variant, q).s)
        /\ res.author # None => Decode(res.author[1]) = Dash \o authorName
        /\ res.work # None => Decode(res.work[1]) = workOf(variant, q)
        /\ res.year # None => Decode(res.year[1]) = yearOf(variant, q)

====
